---- MODULE Spec2Model ----
(***************************************************************************)
(* Model of package state (lefelys/state): trees of State nodes, the       *)
(* close/finishSig/cause protocol of every node variant, the goroutines    *)
(* the package starts (close watchers, close calls) and the callers of     *)
(* Shutdown with their contexts.                                           *)
(*                                                                         *)
(* A tree is built once (merge / WithShutdown / WithAnnotation / WithError *)
(* / DependsOn) and never changes; Init is the state right after the       *)
(* construction of one tree of Trees.  Channels are booleans (closed or    *)
(* not), an error is the sequence of its annotations followed by the       *)
(* sentinel, nil is the empty sequence.                                    *)
(***************************************************************************)
EXTENDS Naturals, Integers, Sequences, FiniteSets, Bags, TLC

\* Number of Shutdown calls made on the root of the tree.
MaxCalls == 2

\* A nil State passed to merge.
Nil == 0

\* error values
NilErr == <<>>
ErrTimeout == <<"timeout expired">>

\* fmt.Errorf("%s: %w", annotation, err)
Annotate(label, err) == <<label>> \o err

\* the errors given to WithError and to ErrTail.Error
Errors == {<<"e1">>, <<"e2">>}

\* keys and values of WithValue: the nil key, a key of a type that is not
\* comparable (a func), the nil value
NilKey == "nil"
FuncKey == "func()"
Keys == {"k1", "k2"}
NilValue == "nil"

\* reflect.TypeOf(key).Comparable()
Comparable(key) == key # FuncKey

\* Constructors of the node records: kind, the arguments given to merge
\* (children ...State, possibly nil), the parent of a dependState, the
\* annotation of an annotationState, the error of an errState, the key and
\* the value of a valueState.
EmptyNode ==
  [kind |-> "empty", args |-> <<>>, parent |-> Nil, label |-> "",
   err |-> NilErr, key |-> NilKey, value |-> NilValue]
GroupNode(children) == [EmptyNode EXCEPT !.kind = "group", !.args = children]
ShutdownNode(children) == [EmptyNode EXCEPT !.kind = "shutdown", !.args = children]
ErrorNode(e, children) ==
  [EmptyNode EXCEPT !.kind = "error", !.args = children, !.err = e]
ErrGroupNode(children) == [EmptyNode EXCEPT !.kind = "errgroup", !.args = children]
AnnotationNode(message, children) ==
  [EmptyNode EXCEPT !.kind = "annotation", !.args = children, !.label = message]
DependNode(p, children) ==
  [EmptyNode EXCEPT !.kind = "depend", !.args = children, !.parent = p]
WaitNode(children) == [EmptyNode EXCEPT !.kind = "wait", !.args = children]
ValueNode(k, v, children) ==
  [EmptyNode EXCEPT !.kind = "value", !.args = children, !.key = k, !.value = v]
ReadinessNode(children) == [EmptyNode EXCEPT !.kind = "readiness", !.args = children]

\* The trees the model is run on; a node is its index in nodes.
\*  dep:      st4 = withDependency(st3, st1, st2)
\*  chain:    j1.DependsOn(j2).DependsOn(j3)
\*  wrap:     st3 = withShutdown(st2), st2 = withShutdown(st1)
\*  merge:    merge(a, b)
\*  mixed:    WithAnnotation("job", WithError(e, s)).DependsOn(Empty())
\*  annwrap:  withShutdown(withAnnotation("test", st1))
\*  emptydep: Empty().DependsOn(s)
\*  empty:    Empty()
\*  nilskip:  Merge(nil, s, Empty())
\*  nilfirst: Merge(nil, s)
\*  nilwrap:  WithShutdown(nil, c, Empty())
\*  annot2:   WithAnnotation("outer", WithAnnotation("inner", s1), s2)
\*  errann:   WithAnnotation("ann", g1, g2), g1 and g2 from WithErrorGroup()
\*  errdep:   g2.DependsOn(g1)
\*  errwrap:  WithErrorGroup(g1)
\*  errfixed: WithErrorGroup(Merge(nil, WithError(e1)))
\*  values:   WithValue(k1, v1, WithValue(k1, v2), WithValue(k2, v1))
\*  valnil:   Merge(WithValue(k1, nil), WithValue(k1, v1))
\*  valdep:   withWait(WithValue(k1, v1)).DependsOn(WithValue(k1, v2))
\*  valhide:  WithValue(k1, nil, WithValue(k1, v1))
\*  nilkey:   WithValue(nil, v1, s)
\*  funckey: WithValue(func() {}, v1, s)
\*  waits:    st3.DependsOn(st1, st2), each from withWait()
\*  waitwrap: withWait(withWait(withWait()))
\*  emptymerge: Merge(Empty(), s)
\*  valshut:  WithValue(k1, v1, WithError(e2, s))
\*  anndep:   WithAnnotation("p", sp).DependsOn(WithAnnotation("c", sc))
\* and two structures in which a node is referenced by two composites:
\*  shared2:  Merge(Merge(s), Merge(s))
\*  sharedp:  Merge(p, p.DependsOn(c))
\*  readys:   merge(r1, r2), each from withReadiness()
\*  readydep: r3.DependsOn(r1, r2)
\*  readywrap: withReadiness(withReadiness())
\*  readymix: WithAnnotation("a", Empty(), r1)
Trees ==
  [ dep      |-> [root |-> 4, nodes |-> << ShutdownNode(<<>>), ShutdownNode(<<>>),
                                          ShutdownNode(<<>>), DependNode(3, <<1, 2>>) >>],
    chain    |-> [root |-> 5, nodes |-> << ShutdownNode(<<>>), ShutdownNode(<<>>),
                                          ShutdownNode(<<>>), DependNode(1, <<2>>),
                                          DependNode(4, <<3>>) >>],
    wrap     |-> [root |-> 3, nodes |-> << ShutdownNode(<<>>), ShutdownNode(<<1>>),
                                          ShutdownNode(<<2>>) >>],
    merge    |-> [root |-> 3, nodes |-> << ShutdownNode(<<>>), ShutdownNode(<<>>),
                                          GroupNode(<<1, 2>>) >>],
    mixed    |-> [root |-> 5, nodes |-> << ShutdownNode(<<>>), ErrorNode(<<"e1">>, <<1>>),
                                          AnnotationNode("job", <<2>>), EmptyNode,
                                          DependNode(3, <<4>>) >>],
    annwrap  |-> [root |-> 3, nodes |-> << ShutdownNode(<<>>), AnnotationNode("test", <<1>>),
                                          ShutdownNode(<<2>>) >>],
    nilskip  |-> [root |-> 3, nodes |-> << ShutdownNode(<<>>), EmptyNode,
                                          GroupNode(<<Nil, 1, 2>>) >>],
    emptydep |-> [root |-> 3, nodes |-> << ShutdownNode(<<>>), EmptyNode,
                                          DependNode(2, <<1>>) >>],
    empty    |-> [root |-> 1, nodes |-> << EmptyNode >>],
    nilfirst |-> [root |-> 2, nodes |-> << ShutdownNode(<<>>), GroupNode(<<Nil, 1>>) >>],
    nilwrap  |-> [root |-> 3, nodes |-> << ShutdownNode(<<>>), EmptyNode,
                                          ShutdownNode(<<Nil, 1, 2>>) >>],
    annot2   |-> [root |-> 4, nodes |-> << ShutdownNode(<<>>), AnnotationNode("inner", <<1>>),
                                          ShutdownNode(<<>>),
                                          AnnotationNode("outer", <<2, 3>>) >>],
    errann   |-> [root |-> 3, nodes |-> << ErrGroupNode(<<>>), ErrGroupNode(<<>>),
                                          AnnotationNode("ann", <<1, 2>>) >>],
    errdep   |-> [root |-> 3, nodes |-> << ErrGroupNode(<<>>), ErrGroupNode(<<>>),
                                          DependNode(2, <<1>>) >>],
    errwrap  |-> [root |-> 2, nodes |-> << ErrGroupNode(<<>>), ErrGroupNode(<<1>>) >>],
    errfixed |-> [root |-> 3, nodes |-> << ErrorNode(<<"e1">>, <<>>), GroupNode(<<Nil, 1>>),
                                          ErrGroupNode(<<2>>) >>],
    values   |-> [root |-> 3, nodes |-> << ValueNode("k1", "v2", <<>>),
                                          ValueNode("k2", "v1", <<>>),
                                          ValueNode("k1", "v1", <<1, 2>>) >>],
    valnil   |-> [root |-> 3, nodes |-> << ValueNode("k1", NilValue, <<>>),
                                          ValueNode("k1", "v1", <<>>),
                                          GroupNode(<<1, 2>>) >>],
    valdep   |-> [root |-> 4, nodes |-> << ValueNode("k1", "v2", <<>>),
                                          ValueNode("k1", "v1", <<>>), WaitNode(<<2>>),
                                          DependNode(3, <<1>>) >>],
    valhide  |-> [root |-> 2, nodes |-> << ValueNode("k1", "v1", <<>>),
                                          ValueNode("k1", NilValue, <<1>>) >>],
    nilkey   |-> [root |-> 2, nodes |-> << ShutdownNode(<<>>),
                                          ValueNode(NilKey, "v1", <<1>>) >>],
    funckey |-> [root |-> 2, nodes |-> << ShutdownNode(<<>>),
                                          ValueNode(FuncKey, "v1", <<1>>) >>],
    waits    |-> [root |-> 4, nodes |-> << WaitNode(<<>>), WaitNode(<<>>), WaitNode(<<>>),
                                          DependNode(3, <<1, 2>>) >>],
    waitwrap |-> [root |-> 3, nodes |-> << WaitNode(<<>>), WaitNode(<<1>>),
                                          WaitNode(<<2>>) >>],
    emptymerge |-> [root |-> 3, nodes |-> << EmptyNode, ShutdownNode(<<>>),
                                            GroupNode(<<1, 2>>) >>],
    anndep   |-> [root |-> 5, nodes |-> << ShutdownNode(<<>>), AnnotationNode("p", <<1>>),
                                          ShutdownNode(<<>>), AnnotationNode("c", <<3>>),
                                          DependNode(2, <<4>>) >>],
    shared2  |-> [root |-> 4, nodes |-> << ShutdownNode(<<>>), GroupNode(<<1>>),
                                          GroupNode(<<1>>), GroupNode(<<2, 3>>) >>],
    sharedp  |-> [root |-> 4, nodes |-> << ShutdownNode(<<>>), ShutdownNode(<<>>),
                                          DependNode(1, <<2>>), GroupNode(<<1, 3>>) >>],
    valshut  |-> [root |-> 3, nodes |-> << ShutdownNode(<<>>), ErrorNode(<<"e2">>, <<1>>),
                                          ValueNode("k1", "v1", <<2>>) >>],
    readys   |-> [root |-> 3, nodes |-> << ReadinessNode(<<>>), ReadinessNode(<<>>),
                                          GroupNode(<<1, 2>>) >>],
    readydep |-> [root |-> 4, nodes |-> << ReadinessNode(<<>>), ReadinessNode(<<>>),
                                          ReadinessNode(<<>>), DependNode(3, <<1, 2>>) >>],
    readywrap |-> [root |-> 2, nodes |-> << ReadinessNode(<<>>), ReadinessNode(<<1>>) >>],
    readymix |-> [root |-> 3, nodes |-> << EmptyNode, ReadinessNode(<<>>),
                                          AnnotationNode("a", <<1, 2>>) >>] ]

VARIABLES
  tree,        \* the tree that was built (a name of Trees)
  pre,         \* Shutdown nodes whose Done was called before they were merged
  gdone,       \* group.done closed (started closing), per node
  gfin,        \* group.finished closed, per node
  toClose,     \* group.toClose, per node: indices of the merge arguments
  end,         \* shutdownState.end closed
  sdone,       \* shutdownState.done closed
  dfin,        \* dependState.finished closed
  gor,         \* the running goroutines of the package: a bag of call stacks
  call,        \* the current (or last) call of Shutdown on the root
  calls,       \* the number of Shutdown calls made so far
  panicked,    \* the process died of a run-time panic
  closeCalled, \* history: nodes whose close() has been invoked
  errs,        \* errState.err, per node
  emu,         \* errState.RWMutex, per node: held by a call of Error
  ecall,       \* the calls of ErrTail.Error made so far: a bag of calls
  errRes,      \* the current (or last) call of Err() on the root
  valRes,      \* the last call of Value(key) on the root and what it returned
  wcount,      \* the counter of waitState.WaitGroup, per node
  wcall,       \* the call of Wait() on the root
  rok,         \* readinessState.ready closed (Ok was called), per node
  gready,      \* group.ready, per node: "nil", "open" or "closed"
  readyOut,    \* readinessState.readyOut and dependState.ready, per node
  rgor,        \* the goroutines started by Ready(): a bag of builders
  made,        \* history: the channels made by Ready(), per node and field
  rcall,       \* history: the calls of Ready() on the root and their results
  built        \* the nodes constructed so far, and the last call of DependsOn

\* the part of the state that Shutdown and close work on
shutdownVars == <<tree, pre, gdone, gfin, toClose, end, sdone, dfin, gor, call, calls,
                  closeCalled, built>>

\* the part of the state that Err, Error, Value, Wait, Add and Done work on
readyVars == <<rok, gready, readyOut, rgor, made, rcall>>

dataVars == <<errs, emu, ecall, errRes, valRes, wcount, wcall, readyVars, built>>

vars == <<tree, pre, gdone, gfin, toClose, end, sdone, dfin, gor, call, calls,
          panicked, closeCalled, errs, emu, ecall, errRes, valRes, wcount, wcall,
          rok, gready, readyOut, rgor, made, rcall, built>>

T == Trees[tree]
Root == T.root
Nodes == 1..Len(T.nodes)
Kind(n) == T.nodes[n].kind
Args(n) == T.nodes[n].args
Parent(n) == T.nodes[n].parent
Label(n) == T.nodes[n].label
FixedErr(n) == T.nodes[n].err
Key(n) == T.nodes[n].key
StoredValue(n) == T.nodes[n].value

ShutdownNodes == {n \in Nodes : Kind(n) = "shutdown"}
DependNodes == {n \in Nodes : Kind(n) = "depend"}

ErrGroupNodes == {n \in Nodes : Kind(n) = "errgroup"}
ValueNodes == {n \in Nodes : Kind(n) = "value"}
WaitNodes == {n \in Nodes : Kind(n) = "wait"}
ReadinessNodes == {n \in Nodes : Kind(n) = "readiness"}

NotNil(a) == a # Nil

\* mutant: withValue checks the key against nil only
keyNilOnly(key) == key = NilKey

\* withValue: key == nil, or !reflect.TypeOf(key).Comparable(): panic
keyRejected(key) == key = NilKey \/ ~Comparable(key)

\* The constructors run bottom-up, a node after the nodes it is built of; the
\* panic of withValue ends the construction: the node and the ones after it
\* are not created.
Created == {n \in Nodes : \A m \in 1..n : ~(Kind(m) = "value" /\ keyRejected(Key(m)))}

\* group.states: the non-nil arguments, in order
States(n) == SelectSeq(Args(n), NotNil)

\* mutant: merge tracks every child, finished or not
mergeTracksFinished(n, P) == FALSE

\* select { case <-s.finishSig(): /* already closed */ default: toClose[i] = ... }
\* evaluated by merge while the tree is built, P the Shutdown nodes already Done.
\* A group made of no argument has closedchan for done and finished.
FinishedAtMerge(n, P) ==
  CASE Kind(n) = "empty" -> TRUE
    [] Kind(n) = "shutdown" -> n \in P
    [] Kind(n) = "depend" -> FALSE
    [] OTHER -> Len(Args(n)) = 0

\* merge: toClose[i] is keyed by the index i of the argument list
ToCloseAt(n, P) ==
  {i \in 1..Len(Args(n)) : Args(n)[i] # Nil /\ ~FinishedAtMerge(Args(n)[i], P)}

\* mutant: the finishSig of emptyState is an open channel
finishSigEmptyOpen(n) ==
  CASE Kind(n) = "empty" -> FALSE
    [] Kind(n) = "shutdown" -> sdone[n]
    [] Kind(n) = "depend" -> dfin[n]
    [] OTHER -> gfin[n]

\* finishSig() of each variant, as closed (TRUE) or open
finishSig(n) ==
  CASE Kind(n) = "empty" -> TRUE
    [] Kind(n) = "shutdown" -> sdone[n]
    [] Kind(n) = "depend" -> dfin[n]
    [] OTHER -> gfin[n]

AllDone == \A n \in ShutdownNodes : sdone[n]

----------------------------------------------------------------------------
\* cause(): the walk over the tree, D the Shutdown nodes it has seen Done

RECURSIVE cause(_, _), groupCauseFrom(_, _, _)

\* group.cause: the first non-nil cause of g.states, left to right
groupCauseFrom(n, i, D) ==
  IF i > Len(States(n)) THEN NilErr
  ELSE LET err == cause(States(n)[i], D)
       IN IF err # NilErr THEN err ELSE groupCauseFrom(n, i + 1, D)

groupCause(n, D) == groupCauseFrom(n, 1, D)

\* mutant: the default case of the select is missing
shutdownOwnCauseNil(n, D) == NilErr

\* mutant: the select reports the timeout whatever the state of done
shutdownOwnCauseTimeout(n, D) == ErrTimeout

\* shutdownState.cause: select { case <-s.done: nil; default: ErrTimeout }
shutdownOwnCause(n, D) == IF n \in D THEN NilErr ELSE ErrTimeout

\* mutant: the cause of the group is passed on without the annotation
annotationCauseBare(n, D) == groupCause(n, D)

\* annotationState.cause
annotationCause(n, D) ==
  LET err == groupCause(n, D)
  IN IF err # NilErr THEN Annotate(Label(n), err) ELSE NilErr

\* mutant: the parent is inspected before the children
dependCauseParentFirst(n, D) ==
  LET err == cause(Parent(n), D)
  IN IF err # NilErr THEN err ELSE groupCause(n, D)

\* dependState.cause: d.children.cause(), then d.parent.cause()
dependCause(n, D) ==
  LET err == groupCause(n, D)
  IN IF err # NilErr THEN err ELSE cause(Parent(n), D)

cause(n, D) ==
  CASE Kind(n) = "empty" -> NilErr
    [] Kind(n) = "shutdown" ->
         LET err == groupCause(n, D)
         IN IF err # NilErr THEN err ELSE shutdownOwnCause(n, D)
    [] Kind(n) = "depend" -> dependCause(n, D)
    [] Kind(n) = "annotation" -> annotationCause(n, D)
    [] OTHER -> groupCause(n, D)

\* The order in which cause() reads the done channels of the Shutdown nodes
RECURSIVE causeOrder(_), groupOrderFrom(_, _)

groupOrderFrom(n, i) ==
  IF i > Len(States(n)) THEN <<>>
  ELSE causeOrder(States(n)[i]) \o groupOrderFrom(n, i + 1)

causeOrder(n) ==
  CASE Kind(n) = "empty" -> <<>>
    [] Kind(n) = "shutdown" -> groupOrderFrom(n, 1) \o <<n>>
    [] Kind(n) = "depend" -> groupOrderFrom(n, 1) \o causeOrder(Parent(n))
    [] OTHER -> groupOrderFrom(n, 1)

\* What Shutdown returns when the context expired first: c.cause() of shutdown();
\* annotationState.Shutdown runs the group's Shutdown and annotates its error.
shutdownErr(n, D) ==
  IF Kind(n) = "annotation"
  THEN LET err == groupCause(n, D)
       IN IF err # NilErr THEN Annotate(Label(n), err) ELSE NilErr
  ELSE cause(n, D)

----------------------------------------------------------------------------
\* Goroutines: a call stack is a sequence of frames, the last one running

Frame(n, pc) == [n |-> n, pc |-> pc, rem |-> {}, cur |-> 0]

Top(s) == s[Len(s)]
Pop(s) == SubSeq(s, 1, Len(s) - 1)
SetTop(s, f) == Pop(s) \o <<f>>
Push(s, f) == s \o <<f>>

\* The goroutine with stack s calls n.close(): its stack at the first step of
\* the call that reads or writes a channel, and the goroutine the call starts.
\*   emptyState.close     returns at once
\*   shutdownState.close  go s.group.close(), then <-s.group.finishSig()
\*   dependState.close    d.children.close(), then <-d.children.finishSig()
\*   group.close          (every other variant embeds *group); on a group
\*                        merged of no argument done is closedchan and the
\*                        call returns at once
groupCall(s, n) == IF Len(Args(n)) = 0 THEN s ELSE Push(s, Frame(n, "g_enter"))

closeCall(s, n) ==
  CASE Kind(n) = "empty" -> [stack |-> s, started |-> <<>>]
    [] Kind(n) = "shutdown" ->
         [stack |-> Push(s, Frame(n, "s_wait")), started |-> groupCall(<<>>, n)]
    [] Kind(n) = "depend" ->
         [stack |-> groupCall(Push(s, Frame(n, "d_children")), n), started |-> <<>>]
    [] OTHER -> [stack |-> groupCall(s, n), started |-> <<>>]

Put(b, s) == IF s = <<>> THEN b ELSE b (+) SetToBag({s})
Take(b, s) == b (-) SetToBag({s})
Running == BagToSet(gor)

\* addToCloseStream: go func() { <-done; c.close() }() for every tracked child
Watcher(g, i) == <<[n |-> Args(g)[i], pc |-> "w_wait", rem |-> {}, cur |-> g]>>

Watchers(P) == UNION {{Watcher(g, i) : i \in ToCloseAt(g, P)} : g \in Created}

\* The bounds of the calls made on the tails
MaxErrCalls == 2
MaxCount == 3
MaxReadyCalls == 2

NoErrRes == [pc |-> "idle", idx |-> 0, had |-> FALSE, stable |-> FALSE, res |-> NilErr]
NoValRes == [called |-> FALSE, key |-> NilKey, res |-> NilValue]
IdleWait == [pc |-> "idle", idx |-> 0, addAfter |-> FALSE, waited |-> FALSE,
             zeroAtReturn |-> FALSE]

NoReadyCall == [n |-> 0, res |-> {}]

IdleCall == [pc |-> "idle", idx |-> 0, res |-> NilErr, expired |-> FALSE,
             finAtCall |-> FALSE, finAtDeadline |-> FALSE, doneAtCause |-> FALSE,
             stalled |-> Nil]

\* mutant: merge makes the two channels whatever the arguments
mergeAlwaysMakes(n) == FALSE

\* merge: if len(states) == 0, done and finished are closedchan
mergedOfNone(n) == Len(Args(n)) = 0

\* no node constructed yet
NoneBuilt == [nodes |-> <<>>, x |-> 0, children |-> <<>>]

\* the structures in which a node is referenced twice
SharedTrees == {"shared2", "sharedp"}

\* the state after the construction of one of the named structures
InitOn(names) ==
  /\ tree \in names
  /\ pre \in SUBSET (ShutdownNodes \ {Root})
  /\ gdone = [n \in Nodes |-> Kind(n) # "empty" /\ mergedOfNone(n)]
  /\ gfin = [n \in Nodes |-> Kind(n) # "empty" /\ mergedOfNone(n)]
  /\ toClose = [n \in Nodes |-> IF n \in Created THEN ToCloseAt(n, pre) ELSE {}]
  /\ end = [n \in Nodes |-> FALSE]
  /\ sdone = [n \in Nodes |-> n \in pre]
  /\ dfin = [n \in Nodes |-> FALSE]
  /\ gor = SetToBag(Watchers(pre))
  /\ call = IdleCall
  /\ calls = 0
  /\ panicked = (Created # Nodes)
  /\ closeCalled = {}
  /\ errs = [n \in Nodes |-> FixedErr(n)]
  /\ emu = [n \in Nodes |-> FALSE]
  /\ ecall = EmptyBag
  /\ errRes = NoErrRes
  /\ valRes = NoValRes
  /\ wcount = [n \in Nodes |-> 0]
  /\ wcall = IdleWait
  /\ rok = [n \in Nodes |-> FALSE]
  /\ gready = [n \in Nodes |-> "nil"]
  /\ readyOut = [n \in Nodes |-> "nil"]
  /\ rgor = EmptyBag
  /\ made = [n \in Nodes |-> [g |-> 0, o |-> 0]]
  /\ rcall = NoReadyCall
  /\ built = NoneBuilt

Init == InitOn(DOMAIN Trees \ SharedTrees)

\* a node referenced by two composites
SharedInit == InitOn(SharedTrees)

----------------------------------------------------------------------------
\* The steps of the goroutines.  Every step is taken by one running stack s.

Alive == ~panicked

\* stack s becomes s2 (dropped when it has returned) and starts goroutine new
Go(s, s2, new) == gor' = Put(Put(Take(gor, s), s2), new)

\* mutant: the watcher closes the child without <-done
watcherNotHeld(g) == TRUE

\* addToCloseStream: <-done, the started-closing signal of the group
watcherReleased(g) == gdone[g]

\* the watcher of a tracked child: <-done, then c.close()
WatcherClose ==
  \E s \in Running :
    LET c == closeCall(<<>>, Top(s).n) IN
    /\ Alive /\ Top(s).pc = "w_wait"
    /\ watcherReleased(Top(s).cur)
    /\ Go(s, c.stack, c.started)
    /\ closeCalled' = closeCalled \cup {Top(s).n}
    /\ UNCHANGED <<dataVars, tree, pre, gdone, gfin, toClose, end, sdone, dfin, call, calls, panicked>>

\* group.close, the guard on g.done
groupAlreadyClosed(n) == gdone[n]

\* group.close: under the lock, return when done is closed, else close(g.done)
GroupClose ==
  \E s \in Running :
    LET n == Top(s).n IN
    /\ Alive /\ Top(s).pc = "g_enter"
    /\ IF groupAlreadyClosed(n)
       THEN /\ Go(s, Pop(s), <<>>)
            /\ UNCHANGED gdone
       ELSE /\ gdone' = [gdone EXCEPT ![n] = TRUE]
            /\ Go(s, SetTop(s, [Top(s) EXCEPT !.pc = "g_loop", !.rem = toClose[n]]), <<>>)
    /\ UNCHANGED <<dataVars, tree, pre, gfin, toClose, end, sdone, dfin, call, calls, panicked, closeCalled>>

\* group.close: for i := range g.toClose (any order); g.states[i] is out of
\* range when nil arguments came before argument i; after the loop
\* close(g.finished), a panic if the channel is closed already
GroupRange ==
  \E s \in Running :
    LET n == Top(s).n IN
    /\ Alive /\ Top(s).pc = "g_loop"
    /\ IF Top(s).rem = {}
       THEN IF gfin[n]
            THEN /\ panicked' = TRUE
                 /\ UNCHANGED <<gfin, gor>>
            ELSE /\ gfin' = [gfin EXCEPT ![n] = TRUE]
                 /\ Go(s, Pop(s), <<>>)
                 /\ UNCHANGED panicked
       ELSE \E i \in Top(s).rem :
              IF i > Len(States(n))
              THEN /\ panicked' = TRUE
                   /\ UNCHANGED <<gfin, gor>>
              ELSE /\ Go(s, SetTop(s, [Top(s) EXCEPT !.pc = "g_wait", !.cur = i]), <<>>)
                   /\ UNCHANGED <<gfin, panicked>>
    /\ UNCHANGED <<dataVars, tree, pre, gdone, toClose, end, sdone, dfin, call, calls, closeCalled>>

\* mutant: the group does not wait for its children
childNotAwaited(n, i) == TRUE

\* group.close: <-g.states[i].finishSig()
childFinished(n, i) == finishSig(States(n)[i])

\* group.close: the child finished; delete(g.toClose, i)
GroupChildFinished ==
  \E s \in Running :
    LET n == Top(s).n
        i == Top(s).cur IN
    /\ Alive /\ Top(s).pc = "g_wait"
    /\ childFinished(n, i)
    /\ toClose' = [toClose EXCEPT ![n] = @ \ {i}]
    /\ Go(s, SetTop(s, [Top(s) EXCEPT !.pc = "g_loop", !.rem = @ \ {i}, !.cur = 0]), <<>>)
    /\ UNCHANGED <<dataVars, tree, pre, gdone, gfin, end, sdone, dfin, call, calls, panicked, closeCalled>>

\* shutdownState.close: <-s.group.finishSig()
shutdownGroupFinished(n) == gfin[n]

\* mutant: close(s.end) without the select
endNeverClosed(n) == FALSE

\* shutdownState.close: select { case <-s.end: return /* already closed */ ... }
endAlreadyClosed(n) == end[n]

\* shutdownState.close: the group finished; close(s.end) unless closed;
\* closing a closed channel is a run-time panic
ShutdownEnd ==
  \E s \in Running :
    LET n == Top(s).n IN
    /\ Alive /\ Top(s).pc = "s_wait"
    /\ shutdownGroupFinished(n)
    /\ IF endAlreadyClosed(n)
       THEN /\ Go(s, Pop(s), <<>>)
            /\ UNCHANGED <<end, panicked>>
       ELSE IF end[n]
       THEN /\ panicked' = TRUE
            /\ UNCHANGED <<end, gor>>
       ELSE /\ end' = [end EXCEPT ![n] = TRUE]
            /\ Go(s, Pop(s), <<>>)
            /\ UNCHANGED panicked
    /\ UNCHANGED <<dataVars, tree, pre, gdone, gfin, toClose, sdone, dfin, call, calls, closeCalled>>

\* mutant: the parent is closed without <-d.children.finishSig()
dependChildrenNotAwaited(n) == TRUE

\* dependState.close: <-d.children.finishSig()
dependChildrenFinished(n) == gfin[n]

\* dependState.close: the children finished; d.parent.close()
DependParentClose ==
  \E s \in Running :
    LET n == Top(s).n
        c == closeCall(SetTop(s, Frame(n, "d_parent")), Parent(n)) IN
    /\ Alive /\ Top(s).pc = "d_children"
    /\ dependChildrenFinished(n)
    /\ Go(s, c.stack, c.started)
    /\ closeCalled' = closeCalled \cup {Parent(n)}
    /\ UNCHANGED <<dataVars, tree, pre, gdone, gfin, toClose, end, sdone, dfin, call, calls, panicked>>

\* mutant: d.Done() without <-d.parent.finishSig()
dependParentNotAwaited(n) == TRUE

\* dependState.close: <-d.parent.finishSig()
dependParentFinished(n) == finishSig(Parent(n))

\* dependState.close: the parent finished; d.Done() closes d.finished
DependDone ==
  \E s \in Running :
    LET n == Top(s).n IN
    /\ Alive /\ Top(s).pc = "d_parent"
    /\ dependParentFinished(n)
    /\ dfin' = [dfin EXCEPT ![n] = TRUE]
    /\ Go(s, Pop(s), <<>>)
    /\ UNCHANGED <<dataVars, tree, pre, gdone, gfin, toClose, end, sdone, call, calls, panicked, closeCalled>>

----------------------------------------------------------------------------
\* The owner of a Shutdown node

\* mutant: Done closes s.done without the select
doneNeverClosed(n) == FALSE

\* shutdownState.Done: select { case <-s.done: /* already closed */ ... }
doneAlreadyClosed(n) == sdone[n]

\* shutdownState.Done: close(s.done) unless closed; closing a closed channel
\* is a run-time panic
Done(n) ==
  IF doneAlreadyClosed(n) THEN UNCHANGED <<sdone, panicked>>
  ELSE IF sdone[n] THEN panicked' = TRUE /\ UNCHANGED sdone
  ELSE sdone' = [sdone EXCEPT ![n] = TRUE] /\ UNCHANGED panicked

\* ShutdownTail.Done, called by the owner at any time
TailDone ==
  \E n \in ShutdownNodes :
    /\ Alive
    /\ Done(n)
    /\ UNCHANGED <<dataVars, tree, pre, gdone, gfin, toClose, end, dfin, gor, call, calls,
                   closeCalled>>

\* An owner that follows runShutdownable: <-tail.End(), then tail.Done()
TailDoneAfterEnd ==
  \E n \in ShutdownNodes :
    /\ Alive
    /\ end[n]
    /\ Done(n)
    /\ UNCHANGED <<dataVars, tree, pre, gdone, gfin, toClose, end, dfin, gor, call, calls,
                   closeCalled>>

----------------------------------------------------------------------------
\* The caller of Root.Shutdown(ctx): one call after the other, call holds the
\* state of the current one and, once it returned, its result

\* shutdown(): go c.close(), then the select; emptyState.Shutdown returns nil
ShutdownCall ==
  LET c == closeCall(<<>>, Root) IN
  /\ Alive /\ call.pc \in {"idle", "ret"} /\ calls < MaxCalls
  /\ calls' = calls + 1
  /\ IF Kind(Root) = "empty"
     THEN /\ call' = [IdleCall EXCEPT !.pc = "ret", !.finAtCall = TRUE]
          /\ UNCHANGED <<gor, closeCalled>>
     ELSE /\ call' = [IdleCall EXCEPT !.pc = "select", !.finAtCall = finishSig(Root)]
          /\ gor' = Put(Put(gor, c.stack), c.started)
          /\ closeCalled' = closeCalled \cup {Root}
  /\ UNCHANGED <<dataVars, tree, pre, gdone, gfin, toClose, end, sdone, dfin, panicked>>

\* the context of the call expires (ctx.Done() is closed)
Expire ==
  /\ Alive /\ call.pc = "select" /\ ~call.expired
  /\ call' = [call EXCEPT !.expired = TRUE, !.finAtDeadline = finishSig(Root)]
  /\ UNCHANGED <<dataVars, tree, pre, gdone, gfin, toClose, end, sdone, dfin, gor, calls, panicked,
                 closeCalled>>

\* shutdown(): case <-c.finishSig(): return nil
SelectFinished ==
  /\ Alive /\ call.pc = "select"
  /\ finishSig(Root)
  /\ call' = [call EXCEPT !.pc = "ret", !.res = NilErr]
  /\ UNCHANGED <<dataVars, tree, pre, gdone, gfin, toClose, end, sdone, dfin, gor, calls, panicked,
                 closeCalled>>

\* shutdown(): case <-ctx.Done(): return c.cause(); cause starts its walk
SelectExpired ==
  /\ Alive /\ call.pc = "select"
  /\ call.expired
  /\ call' = [call EXCEPT !.pc = "cause", !.idx = 1, !.doneAtCause = AllDone]
  /\ UNCHANGED <<dataVars, tree, pre, gdone, gfin, toClose, end, sdone, dfin, gor, calls, panicked,
                 closeCalled>>

\* what cause() has seen so far: the Shutdown nodes before position idx were Done
Seen(idx) == {causeOrder(Root)[j] : j \in 1..(idx - 1)}

\* cause(): the next read of a done channel; an open one ends the walk with
\* the error, the end of the walk returns nil; stalled is the node whose done
\* channel was found open
CauseStep ==
  LET order == causeOrder(Root)
      idx == call.idx IN
  /\ Alive /\ call.pc = "cause"
  /\ call' = IF idx <= Len(order) /\ sdone[order[idx]]
             THEN [call EXCEPT !.idx = idx + 1]
             ELSE [call EXCEPT !.pc = "ret", !.idx = 0, !.res = shutdownErr(Root, Seen(idx)),
                               !.stalled = IF idx <= Len(order) THEN order[idx] ELSE Nil]
  /\ UNCHANGED <<dataVars, tree, pre, gdone, gfin, toClose, end, sdone, dfin, gor, calls, panicked,
                 closeCalled>>

----------------------------------------------------------------------------
\* Err(): the walk over the tree, E the error stored in every node

RECURSIVE Err(_, _), groupErrFrom(_, _, _)

\* group.Err: the first non-nil Err of g.states, left to right
groupErrFrom(n, i, E) ==
  IF i > Len(States(n)) THEN NilErr
  ELSE LET err == Err(States(n)[i], E)
       IN IF err # NilErr THEN err ELSE groupErrFrom(n, i + 1, E)

groupErr(n, E) == groupErrFrom(n, 1, E)

\* mutant: the annotation is put in front of a nil error too
annotationErrAlways(n, E) == Annotate(Label(n), groupErr(n, E))

\* annotationState.Err
annotationErr(n, E) ==
  LET err == groupErr(n, E)
  IN IF err # NilErr THEN Annotate(Label(n), err) ELSE NilErr

\* dependState.Err: the parent, then d.children.states
dependErr(n, E) ==
  LET err == Err(Parent(n), E)
  IN IF err # NilErr THEN err ELSE groupErr(n, E)

\* mutant: Err() of a Shutdown node reports the timeout of a Shutdown call
\* that found the node not Done
errSurfacesTimeout(n, E) ==
  CASE Kind(n) = "empty" -> NilErr
    [] Kind(n) \in {"error", "errgroup"} -> E[n]
    [] Kind(n) = "depend" -> dependErr(n, E)
    [] Kind(n) = "annotation" -> annotationErr(n, E)
    [] Kind(n) = "shutdown" ->
         IF call.pc = "ret" /\ call.res # NilErr /\ ~sdone[n]
         THEN ErrTimeout ELSE groupErr(n, E)
    [] OTHER -> groupErr(n, E)

\* errState.Err (errGroupState embeds *errState): return e.err
Err(n, E) ==
  CASE Kind(n) = "empty" -> NilErr
    [] Kind(n) \in {"error", "errgroup"} -> E[n]
    [] Kind(n) = "depend" -> dependErr(n, E)
    [] Kind(n) = "annotation" -> annotationErr(n, E)
    [] OTHER -> groupErr(n, E)

\* The order in which Err() reads the err fields
RECURSIVE errOrder(_), groupErrOrderFrom(_, _)

groupErrOrderFrom(n, i) ==
  IF i > Len(States(n)) THEN <<>>
  ELSE errOrder(States(n)[i]) \o groupErrOrderFrom(n, i + 1)

errOrder(n) ==
  CASE Kind(n) = "empty" -> <<>>
    [] Kind(n) \in {"error", "errgroup"} -> <<n>>
    [] Kind(n) = "depend" -> errOrder(Parent(n)) \o groupErrOrderFrom(n, 1)
    [] OTHER -> groupErrOrderFrom(n, 1)

\* some node of the tree holds an error
AnyErr == \E n \in Nodes : errs[n] # NilErr

\* ErrTail.Error(err) on node n: if err != nil { e.Lock() ...
ErrorCall ==
  \E n \in ErrGroupNodes, e \in Errors \cup {NilErr} :
    /\ Alive /\ BagCardinality(ecall) < MaxErrCalls
    /\ ecall' = ecall (+) SetToBag({[n |-> n, e |-> e,
                                     pc |-> IF e # NilErr THEN "lock" ELSE "done"]})
    /\ UNCHANGED <<shutdownVars, readyVars, panicked, errs, emu, errRes, valRes, wcount, wcall>>

\* Error: e.Lock()
ErrorLock ==
  \E c \in BagToSet(ecall) :
    /\ Alive /\ c.pc = "lock" /\ ~emu[c.n]
    /\ emu' = [emu EXCEPT ![c.n] = TRUE]
    /\ ecall' = (ecall (-) SetToBag({c})) (+) SetToBag({[c EXCEPT !.pc = "store"]})
    /\ UNCHANGED <<shutdownVars, readyVars, panicked, errs, errRes, valRes, wcount, wcall>>

\* mutant: the error is assigned whatever the node holds
errNeverSet(n) == FALSE

\* Error: e.err == nil is false
errAlreadySet(n) == errs[n] # NilErr

\* Error: if e.err == nil { e.err = err }; e.Unlock().  An assignment that
\* changes the error during a call of Err() makes that call unstable.
ErrorAssign ==
  \E c \in BagToSet(ecall) :
    /\ Alive /\ c.pc = "store"
    /\ errs' = IF errAlreadySet(c.n) THEN errs ELSE [errs EXCEPT ![c.n] = c.e]
    /\ emu' = [emu EXCEPT ![c.n] = FALSE]
    /\ ecall' = (ecall (-) SetToBag({c})) (+) SetToBag({[c EXCEPT !.pc = "done"]})
    /\ errRes' = IF errRes.pc = "walk" /\ errs' # errs
                 THEN [errRes EXCEPT !.stable = FALSE] ELSE errRes
    /\ UNCHANGED <<shutdownVars, readyVars, panicked, valRes, wcount, wcall>>

\* Root.Err() is called
ErrCall ==
  /\ Alive /\ errRes.pc \in {"idle", "ret"}
  /\ errRes' = [pc |-> "walk", idx |-> 1, had |-> AnyErr, stable |-> TRUE, res |-> NilErr]
  /\ UNCHANGED <<shutdownVars, readyVars, panicked, errs, emu, ecall, valRes, wcount, wcall>>

\* what Err() has read so far: nil in the nodes before position idx
ErrView(idx) ==
  [n \in Nodes |-> IF idx <= Len(errOrder(Root)) /\ n = errOrder(Root)[idx]
                   THEN errs[n] ELSE NilErr]

\* Err(): the next read of an err field, under e.RLock(); a non-nil one ends
\* the walk with the error, the end of the walk returns nil
ErrStep ==
  LET order == errOrder(Root)
      idx == errRes.idx IN
  /\ Alive /\ errRes.pc = "walk"
  /\ idx <= Len(order) => ~emu[order[idx]]
  /\ errRes' = IF idx <= Len(order) /\ errs[order[idx]] = NilErr
               THEN [errRes EXCEPT !.idx = idx + 1]
               ELSE [errRes EXCEPT !.pc = "ret", !.idx = 0, !.res = Err(Root, ErrView(idx))]
  /\ UNCHANGED <<shutdownVars, readyVars, panicked, errs, emu, ecall, valRes, wcount, wcall>>

ErrNext == ErrorCall \/ ErrorLock \/ ErrorAssign \/ ErrCall \/ ErrStep

ErrSpec == Init /\ [][ErrNext]_vars

----------------------------------------------------------------------------
\* Value(key): the walk over the tree

RECURSIVE Value(_, _), groupValueFrom(_, _, _)

\* group.Value: the first non-nil Value of g.states, left to right
groupValueFrom(n, i, k) ==
  IF i > Len(States(n)) THEN NilValue
  ELSE LET value == Value(States(n)[i], k)
       IN IF value # NilValue THEN value ELSE groupValueFrom(n, i + 1, k)

groupValue(n, k) == groupValueFrom(n, 1, k)

\* mutant: the children are asked before the parent
dependValueChildrenFirst(n, k) ==
  LET value == groupValue(n, k)
  IN IF value # NilValue THEN value ELSE Value(Parent(n), k)

\* dependState.Value: the parent, then d.children.states
dependValue(n, k) ==
  LET value == Value(Parent(n), k)
  IN IF value # NilValue THEN value ELSE groupValue(n, k)

\* mutant: a Value node that holds nil under the key asks its children
valueFallsThrough(n, k) ==
  CASE Kind(n) = "empty" -> NilValue
    [] Kind(n) = "value" ->
         IF Key(n) = k /\ StoredValue(n) # NilValue THEN StoredValue(n)
         ELSE groupValue(n, k)
    [] Kind(n) = "depend" -> dependValue(n, k)
    [] OTHER -> groupValue(n, k)

\* valueState.Value: if e.key == key { return e.value }; e.group.Value(key)
Value(n, k) ==
  CASE Kind(n) = "empty" -> NilValue
    [] Kind(n) = "value" -> IF Key(n) = k THEN StoredValue(n) ELSE groupValue(n, k)
    [] Kind(n) = "depend" -> dependValue(n, k)
    [] OTHER -> groupValue(n, k)

\* Root.Value(k) is called
ValueRead ==
  \E k \in Keys :
    /\ Alive
    /\ valRes' = [called |-> TRUE, key |-> k, res |-> Value(Root, k)]
    /\ UNCHANGED <<shutdownVars, readyVars, panicked, errs, emu, ecall, errRes, wcount, wcall>>

ValueSpec == Init /\ [][ValueRead]_vars

----------------------------------------------------------------------------
\* Wait(): the walk over the counters of the tree

RECURSIVE waitOrder(_), groupWaitOrderFrom(_, _)

\* group.Wait: m.Wait() for the states in order
groupWaitOrderFrom(n, i) ==
  IF i > Len(States(n)) THEN <<>>
  ELSE waitOrder(States(n)[i]) \o groupWaitOrderFrom(n, i + 1)

\* mutant: Wait of a Wait node asks its group only
waitOrderGroupOnly(n) ==
  CASE Kind(n) = "empty" -> <<>>
    [] Kind(n) = "depend" -> groupWaitOrderFrom(n, 1) \o waitOrder(Parent(n))
    [] OTHER -> groupWaitOrderFrom(n, 1)

\* The WaitGroups that Wait() on n waits for, in order.  waitState.Wait:
\* w.WaitGroup.Wait() then w.group.Wait(); dependState.Wait: the children, then
\* the parent; emptyState.Wait returns; every other node has the Wait of group.
waitOrder(n) ==
  CASE Kind(n) = "empty" -> <<>>
    [] Kind(n) = "wait" -> <<n>> \o groupWaitOrderFrom(n, 1)
    [] Kind(n) = "depend" -> groupWaitOrderFrom(n, 1) \o waitOrder(Parent(n))
    [] OTHER -> groupWaitOrderFrom(n, 1)

\* the WaitGroup that the call of Wait() is at
WaitAt == IF wcall.idx \in 1..Len(waitOrder(Root)) THEN waitOrder(Root)[wcall.idx] ELSE Nil

AllZero == \A n \in WaitNodes : wcount[n] = 0

\* tail.Add(d) on Wait node n: sync.WaitGroup.Add with a positive delta
WaitAdd ==
  \E n \in WaitNodes \cap Created, d \in 1..MaxCount :
    /\ Alive
    /\ wcount[n] + d <= MaxCount
    /\ wcount' = [wcount EXCEPT ![n] = @ + d]
    /\ wcall' = [wcall EXCEPT !.addAfter = @ \/ wcall.pc \in {"walk", "blocked", "woken"}]
    /\ UNCHANGED <<shutdownVars, readyVars, panicked, errs, emu, ecall, errRes, valRes>>

\* tail.Done() on Wait node n: sync.WaitGroup.Add(-1).  A counter below zero
\* is the panic "sync: negative WaitGroup counter"; a counter that reaches
\* zero wakes the caller of Wait blocked on it.
WaitDone ==
  \E n \in WaitNodes \cap Created :
    /\ Alive
    /\ wcount' = [wcount EXCEPT ![n] = @ - 1]
    /\ panicked' = (wcount[n] - 1 < 0)
    /\ wcall' = IF wcall.pc = "blocked" /\ WaitAt = n /\ wcount[n] = 1
                THEN [wcall EXCEPT !.pc = "woken"] ELSE wcall
    /\ UNCHANGED <<shutdownVars, readyVars, errs, emu, ecall, errRes, valRes>>

\* Root.Wait() is called
WaitCall ==
  /\ Alive
  /\ wcall.pc = "idle"
  /\ wcall' = [IdleWait EXCEPT !.pc = "walk", !.idx = 1]
  /\ UNCHANGED <<shutdownVars, readyVars, panicked, errs, emu, ecall, errRes, valRes, wcount>>

\* One step of the call.  sync.WaitGroup.Wait returns at once on a zero
\* counter and otherwise blocks until Done wakes it; woken, it panics
\* ("WaitGroup is reused before previous Wait has returned") when the counter
\* was raised again in between.  After the last WaitGroup the call returns.
WaitStep ==
  /\ Alive
  /\ wcall.pc \in {"walk", "woken"}
  /\ IF WaitAt = Nil
     THEN /\ wcall' = [wcall EXCEPT !.pc = "ret", !.zeroAtReturn = AllZero]
          /\ UNCHANGED panicked
     ELSE IF wcall.pc = "woken" /\ wcount[WaitAt] # 0
     THEN /\ panicked' = TRUE
          /\ UNCHANGED wcall
     ELSE /\ wcall' = IF wcount[WaitAt] = 0
                      THEN [wcall EXCEPT !.pc = "walk", !.idx = @ + 1]
                      ELSE [wcall EXCEPT !.pc = "blocked", !.waited = TRUE]
          /\ UNCHANGED panicked
  /\ UNCHANGED <<shutdownVars, readyVars, errs, emu, ecall, errRes, valRes, wcount>>

WaitNext == WaitAdd \/ WaitDone \/ WaitCall \/ WaitStep

\* The caller of Wait is a goroutine of its own: it is scheduled.
WaitSpec == Init /\ [][WaitNext]_vars /\ WF_vars(WaitStep)

----------------------------------------------------------------------------
\* Ready(): the lazily built ready channels and the goroutines that close them

\* emptyState.Ready is not among the sources; State.Ready documents a tree
\* without readiness states as ready by default: an already closed channel.
emptyReady == "closed"

\* The channel field that Ready() of m returns: readyOut of a readinessState
\* and ready of a dependState ("o"), else ready of the embedded group ("g")
ReadyField(m) == IF Kind(m) \in {"readiness", "depend"} THEN "o" ELSE "g"

Chan(m, f) == IF f = "g" THEN gready[m] ELSE readyOut[m]

\* the state of the channel that Ready() of m returns
Ready(m) == IF Kind(m) = "empty" THEN emptyReady ELSE Chan(m, ReadyField(m))

\* What the goroutine started by Ready() receives from, in order.
\* group.Ready: for _, m := range g.states { <-m.Ready() }
groupSteps(n) ==
  [i \in 1..Len(States(n)) |->
     [op |-> "ready", n |-> States(n)[i], f |-> ReadyField(States(n)[i])]]

\* mutant: readyOut is closed without <-r.ready
readinessStepsNoOk(n) == << [op |-> "ready", n |-> n, f |-> "g"] >>

\* readinessState.Ready: <-r.group.Ready(); <-r.ready
readinessSteps(n) ==
  << [op |-> "ready", n |-> n, f |-> "g"], [op |-> "ok", n |-> n, f |-> "o"] >>

\* dependState.Ready: <-d.children.Ready(); <-d.parent.Ready()
dependSteps(n) ==
  << [op |-> "ready", n |-> n, f |-> "g"],
     [op |-> "ready", n |-> Parent(n), f |-> ReadyField(Parent(n))] >>

Steps(b) ==
  IF b.f = "g" THEN groupSteps(b.n)
  ELSE IF Kind(b.n) = "readiness" THEN readinessSteps(b.n) ELSE dependSteps(b.n)

Builder(m, f) == [n |-> m, f |-> f, idx |-> 1, pc |-> "call"]

\* mutant: the channel is made again by every call
readyNeverBuilt(m, f) == FALSE

\* if g.ready != nil { return g.ready }
readyBuilt(m, f) == Chan(m, f) # "nil"

\* Ready() on field f of m, called under the lock of m by the goroutines in
\* the set from (none for a caller outside), which go on as the set to: the
\* channel is returned, or made and a goroutine started that will close it.
CallReady(m, f, from, to) ==
  IF Kind(m) = "empty" \/ readyBuilt(m, f)
  THEN /\ rgor' = (rgor (-) SetToBag(from)) (+) SetToBag(to)
       /\ UNCHANGED <<gready, readyOut, made>>
  ELSE /\ gready' = IF f = "g" THEN [gready EXCEPT ![m] = "open"] ELSE gready
       /\ readyOut' = IF f = "o" THEN [readyOut EXCEPT ![m] = "open"] ELSE readyOut
       /\ made' = [made EXCEPT ![m][f] = @ + 1]
       /\ rgor' = ((rgor (-) SetToBag(from)) (+) SetToBag(to)) (+) SetToBag({Builder(m, f)})

\* Root.Ready() is called from outside; the channel it returns is told by
\* the number of channels the field has held so far (0: closedchan)
ReadyCall ==
  LET f == ReadyField(Root) IN
  /\ Alive
  /\ rcall.n < MaxReadyCalls
  /\ CallReady(Root, f, {}, {})
  /\ rcall' = [n |-> rcall.n + 1,
               res |-> rcall.res \cup {IF Kind(Root) = "empty" THEN 0 ELSE made'[Root][f]}]
  /\ UNCHANGED <<shutdownVars, panicked, errs, emu, ecall, errRes, valRes, wcount, wcall, rok>>

\* readinessState.Ok: select { case <-r.ready: /* already ready */ ... }
okAlreadyReady(n) == rok[n]

\* ReadinessTail.Ok: close(r.ready) unless closed
Ok ==
  \E n \in ReadinessNodes \cap Created :
    /\ Alive
    /\ IF okAlreadyReady(n) THEN UNCHANGED <<rok, panicked>>
       ELSE IF rok[n] THEN panicked' = TRUE /\ UNCHANGED rok
       ELSE rok' = [rok EXCEPT ![n] = TRUE] /\ UNCHANGED panicked
    /\ UNCHANGED <<shutdownVars, errs, emu, ecall, errRes, valRes, wcount, wcall,
                   gready, readyOut, rgor, made, rcall>>

\* mutant: the goroutine never gets to close the channel
builderNeverDone(b) == FALSE

\* the goroutine has received from everything
builderDone(b) == b.idx > Len(Steps(b))

\* the goroutine calls Ready() on what it will receive from next
BuilderCall ==
  \E b \in BagToSet(rgor) :
    /\ Alive /\ b.pc = "call" /\ b.idx <= Len(Steps(b))
    /\ LET s == Steps(b)[b.idx]
           b2 == [b EXCEPT !.pc = "wait"] IN
       IF s.op = "ok"
       THEN /\ rgor' = (rgor (-) SetToBag({b})) (+) SetToBag({b2})
            /\ UNCHANGED <<gready, readyOut, made>>
       ELSE CallReady(s.n, s.f, {b}, {b2})
    /\ UNCHANGED <<shutdownVars, panicked, errs, emu, ecall, errRes, valRes, wcount, wcall,
                   rok, rcall>>

\* the channel the goroutine receives from is closed
Received(s) ==
  IF s.op = "ok" THEN rok[s.n]
  ELSE IF Kind(s.n) = "empty" THEN emptyReady = "closed"
  ELSE Chan(s.n, s.f) = "closed"

BuilderWait ==
  \E b \in BagToSet(rgor) :
    /\ Alive /\ b.pc = "wait"
    /\ Received(Steps(b)[b.idx])
    /\ rgor' = (rgor (-) SetToBag({b})) (+) SetToBag({[b EXCEPT !.pc = "call", !.idx = @ + 1]})
    /\ UNCHANGED <<shutdownVars, panicked, errs, emu, ecall, errRes, valRes, wcount, wcall,
                   rok, gready, readyOut, made, rcall>>

\* close(g.ready), close(r.readyOut), close(d.ready): closing a closed
\* channel is a run-time panic
BuilderClose ==
  \E b \in BagToSet(rgor) :
    /\ Alive /\ b.pc = "call" /\ builderDone(b)
    /\ IF Chan(b.n, b.f) = "closed"
       THEN /\ panicked' = TRUE
            /\ UNCHANGED <<gready, readyOut, rgor>>
       ELSE /\ gready' = IF b.f = "g" THEN [gready EXCEPT ![b.n] = "closed"] ELSE gready
            /\ readyOut' = IF b.f = "o" THEN [readyOut EXCEPT ![b.n] = "closed"] ELSE readyOut
            /\ rgor' = rgor (-) SetToBag({b})
            /\ UNCHANGED panicked
    /\ UNCHANGED <<shutdownVars, errs, emu, ecall, errRes, valRes, wcount, wcall,
                   rok, made, rcall>>

BuilderStep == BuilderCall \/ BuilderWait \/ BuilderClose

ReadyNext == ReadyCall \/ Ok \/ BuilderStep

\* The goroutines started by Ready() are scheduled.
ReadySpec == Init /\ [][ReadyNext]_vars /\ WF_vars(BuilderStep)

----------------------------------------------------------------------------
GoroutineStep ==
  \/ WatcherClose
  \/ GroupClose \/ GroupRange \/ GroupChildFinished
  \/ ShutdownEnd
  \/ DependParentClose \/ DependDone

CallerStep == ShutdownCall \/ SelectFinished \/ SelectExpired \/ CauseStep

\* Owners may call Done at any time.
Next == GoroutineStep \/ CallerStep \/ Expire \/ TailDone

Spec == Init /\ [][Next]_vars

\* The same with the owners of the Readiness nodes, which call Ok at any time
RepeatNext == Next \/ Ok

RepeatSpec == Init /\ [][RepeatNext]_vars

\* The goroutines are scheduled fairly; an owner may never call Done and a
\* context may never expire.
StallSpec == Init /\ [][Next]_vars /\ WF_vars(GoroutineStep)

----------------------------------------------------------------------------
\* The construction of nodes: built.nodes holds the nodes in the order of
\* their construction, a node refers to another by its position.

MaxBuilt == 3

\* the argument lists of DependsOn: up to two nodes built so far, or nil
ChildLists(k) ==
  {<<>>} \cup {<<a>> : a \in 1..k \cup {Nil}}
         \cup {<<a, b>> : a \in 1..k \cup {Nil}, b \in 1..k \cup {Nil}}

\* mutant: DependsOn on a Dependency node adds the children to that node
withDependencyInPlace(ns, p, children) ==
  IF ns[p].kind = "depend"
  THEN [ns EXCEPT ![p].args = @ \o children]
  ELSE Append(ns, DependNode(p, children))

\* withDependency: &dependState{children: merge(children...), parent: parent, ...}
withDependency(ns, p, children) == Append(ns, DependNode(p, children))

\* WithShutdown(), Empty() or WithError(e1) is called
BuildLeaf ==
  \E r \in {ShutdownNode(<<>>), EmptyNode, ErrorNode(<<"e1">>, <<>>)} :
    /\ Len(built.nodes) < MaxBuilt
    /\ built' = [nodes |-> Append(built.nodes, r), x |-> 0, children |-> <<>>]
    /\ UNCHANGED <<tree, pre, gdone, gfin, toClose, end, sdone, dfin, gor, call, calls,
                   closeCalled, panicked, errs, emu, ecall, errRes, valRes, wcount, wcall,
                   readyVars>>

\* x.DependsOn(children...) is called on a node built before
BuildDependsOn ==
  \E x \in 1..Len(built.nodes) : \E children \in ChildLists(Len(built.nodes)) :
    /\ Len(built.nodes) < MaxBuilt
    /\ built' = [nodes |-> withDependency(built.nodes, x, children),
                 x |-> x, children |-> children]
    /\ UNCHANGED <<tree, pre, gdone, gfin, toClose, end, sdone, dfin, gor, call, calls,
                   closeCalled, panicked, errs, emu, ecall, errRes, valRes, wcount, wcall,
                   readyVars>>

BuildNext == BuildLeaf \/ BuildDependsOn

BuildSpec == InitOn({"empty"}) /\ [][BuildNext]_vars

\* Shutdown on a structure in which a node is referenced twice
SharedSpec == SharedInit /\ [][Next]_vars

\* Owners call Done only after End.
OwnerInit == Init /\ pre = {}

OwnerNext == GoroutineStep \/ CallerStep \/ Expire \/ TailDoneAfterEnd

OwnerSpec == OwnerInit /\ [][OwnerNext]_vars

\* The same, scheduled fairly: a goroutine that can run does, a caller that
\* can return does, an owner that saw End calls Done.  A context may never
\* expire.
LiveSpec ==
  /\ OwnerInit /\ [][OwnerNext]_vars
  /\ WF_vars(GoroutineStep) /\ WF_vars(CallerStep) /\ WF_vars(TailDoneAfterEnd)

----------------------------------------------------------------------------
\* Properties

\* positions of the non-nil arguments of n
ArgIdx(n) == {i \in 1..Len(Args(n)) : Args(n)[i] # Nil}

\* the children of n are Shutdown nodes, none finished when n was built
ShutdownChildren(n) ==
  \A i \in 1..Len(Args(n)) :
    /\ Args(n)[i] # Nil
    /\ Kind(Args(n)[i]) = "shutdown"
    /\ Args(n)[i] \notin pre

\* p's close sequence has started
CloseStarted(p) == p \in closeCalled \/ (Kind(p) = "shutdown" /\ end[p])

\* C1: for a Dependency node d = p.DependsOn(c1..cn) whose children are
\* Shutdown nodes unfinished at construction, p's close sequence has not
\* started (End(p) has not fired) as long as some ci has not fired Done.
C1_ChildrenBeforeParent ==
  \A d \in DependNodes :
    (ShutdownChildren(d) /\ CloseStarted(Parent(d))) =>
      \A i \in ArgIdx(d) : sdone[Args(d)[i]]

\* C1 witness: in st4 = withDependency(st3, st1, st2) the parent st3 got End
\* after st1 and st2 were Done, none of them Done before the shutdown.
C1_Witness ==
  /\ tree = "dep" /\ pre = {} /\ calls > 0
  /\ end[3] /\ sdone[1] /\ sdone[2] /\ end[1] /\ end[2]

\* C2: in j1.DependsOn(j2).DependsOn(j3) with owners that call Done after End:
\* End(j3) is the first End, End(j2) comes after Done(j3), End(j1) after
\* Done(j2), and the finished signal of the composite after Done(j1).
C2_ChainOrder ==
  tree = "chain" =>
    /\ end[2] => (end[3] /\ sdone[3])
    /\ end[1] => (end[2] /\ sdone[2])
    /\ dfin[5] => (end[1] /\ sdone[1])

\* C2 witness: the chain was shut down completely and Shutdown returned nil.
C2_Witness ==
  /\ tree = "chain" /\ dfin[5] /\ sdone[1] /\ sdone[2] /\ sdone[3]
  /\ call.pc = "ret" /\ call.res = NilErr /\ ~call.expired

\* C3: End(s) of s = WithShutdown(children...) has fired only if every child
\* unfinished at construction has finished; in st3 = WithShutdown(st2),
\* st2 = WithShutdown(st1) the Ends fire in the order st1, st2, st3, each
\* after the Done of the node before.
C3_EndAfterChildren ==
  /\ \A s \in ShutdownNodes :
       end[s] => \A i \in ToCloseAt(s, pre) : finishSig(Args(s)[i])
  /\ tree = "wrap" =>
       /\ end[2] => (end[1] /\ sdone[1])
       /\ end[3] => (end[2] /\ sdone[2])

\* C4: for g = merge(a, b), neither finished at merge time: finished(g) has
\* fired only if close(g) was invoked and finishSig(a), finishSig(b) fired.
C4_GroupFinished ==
  (tree = "merge" /\ pre = {}) =>
    (gfin[3] => (3 \in closeCalled /\ gdone[3] /\ sdone[1] /\ sdone[2]))

\* C4 witness: the group finished after a and b were Done, a's End fired and
\* b Done before its own End fired.
C4_Witness ==
  /\ tree = "merge" /\ pre = {} /\ gfin[3] /\ sdone[1] /\ sdone[2]
  /\ end[1] /\ ~end[2]


Returned == call.pc = "ret"

\* C5: when Shutdown returned nil, every Shutdown node of the tree has fired
\* Done.
C5_NilMeansAllDone == (Returned /\ call.res = NilErr) => AllDone

\* the error is ErrTimeout, bare or wrapped in annotations
IsTimeout(err) == err # NilErr /\ err[Len(err)] = ErrTimeout[1]

\* every Done so far came with the End of its node fired
DoneAfterEnd == \A n \in ShutdownNodes : sdone[n] => end[n]

\* no nil State was given to a merge of the tree
NilFree == \A n \in Nodes : \A i \in 1..Len(Args(n)) : Args(n)[i] # Nil

\* C6 (as claimed): Shutdown returns nil iff finishSig fired before the
\* deadline, and the timeout iff the deadline came first and a branch was
\* unfinished when cause() inspected it.  Stated for the trees built
\* without nil and the runs in which the owners called Done after End.
C6_NilIffFinishedFirst ==
  (Returned /\ NilFree /\ DoneAfterEnd) =>
    /\ (call.res = NilErr) <=> (~call.expired \/ call.finAtDeadline)
    /\ IsTimeout(call.res) <=> (call.expired /\ ~call.finAtDeadline /\ ~call.doneAtCause)

\* C6 (amended): Shutdown returns nil only if finishSig has fired or every
\* Shutdown node of the tree is Done (the deadline may have come first); it
\* returns nil whenever the context did not expire; every other result is
\* ErrTimeout, bare or annotated, the context expired and a Shutdown node was
\* not Done when cause() started.
C6_NilOrTimeout ==
  Returned =>
    /\ call.res = NilErr => (finishSig(Root) \/ AllDone)
    /\ ~call.expired => (call.res = NilErr /\ finishSig(Root))
    /\ call.res # NilErr => (IsTimeout(call.res) /\ call.expired /\ ~call.doneAtCause)
    /\ (call.expired /\ call.doneAtCause) => call.res = NilErr

\* C6 witness: the deadline came before finishSig and Shutdown returned nil,
\* in withDependency(st3, st1, st2) with no node Done before the call.
C6_Witness ==
  /\ Returned /\ call.expired /\ ~call.finAtDeadline /\ call.res = NilErr
  /\ pre = {} /\ tree = "dep"

\* C7: cause() is nil when every Shutdown node under the node is Done, and a
\* Shutdown whose deadline expired in such a state returns nil.
C7_NoFalseTimeout ==
  /\ AllDone =>
       \A n \in Nodes : cause(n, ShutdownNodes) = NilErr
  /\ AllDone => shutdownErr(Root, {n \in ShutdownNodes : sdone[n]}) = NilErr
  /\ (Returned /\ call.expired /\ call.doneAtCause) => call.res = NilErr

\* C7 witness: the deadline expired before finishSig, cause() ran when every
\* Shutdown node was Done, and Shutdown returned nil.
C7_Witness ==
  /\ Returned /\ call.expired /\ ~call.finAtDeadline /\ call.doneAtCause
  /\ call.res = NilErr /\ tree = "annwrap"

\* C8: with owners that call Done after End and fair scheduling, a Shutdown
\* whose context never expires returns nil, and every End fires.
C8_ShutdownCompletes ==
  /\ (call.pc = "select") ~> ((Returned /\ call.res = NilErr) \/ call.expired)
  /\ (calls > 0) ~> (\A n \in ShutdownNodes : end[n])

\* C9: after Shutdown returned a timeout the close sequence goes on: once
\* the owners have called Done, finishSig fires.
C9_CloseKeepsRunning ==
  (Returned /\ call.res # NilErr) ~> finishSig(Root)

\* n is a node of the tree under a
RECURSIVE Under(_)
Under(a) ==
  {a} \cup UNION {Under(Args(a)[i]) : i \in ArgIdx(a)}
      \cup (IF Kind(a) = "depend" THEN Under(Parent(a)) ELSE {})

\* n is one of the children of a, or under one
UnderChildren(a) == UNION {Under(Args(a)[i]) : i \in ArgIdx(a)}

\* C10: as long as a Shutdown node has not fired Done, no node above it has
\* finished, no dependent parent got End (or was closed), and Shutdown on
\* the root has not returned nil.
C10_StalledBlocksAncestors ==
  \A n \in ShutdownNodes :
    ~sdone[n] =>
      /\ \A a \in Nodes : n \in Under(a) => ~finishSig(a)
      /\ \A a \in ShutdownNodes : n \in UnderChildren(a) => ~end[a]
      /\ \A a \in DependNodes : n \in UnderChildren(a) => ~CloseStarted(Parent(a))
      /\ Returned => call.res # NilErr

\* C11: the End of a Shutdown node is not fired at construction and fires
\* only once close was invoked on the node, after a Shutdown on the tree; as
\* long as no Shutdown or close was invoked on the tree no End has fired, and
\* neither has the finished signal of a Group merged of at least one argument
\* or of a Dependency node.
C11_EndOnlyAfterClose ==
  /\ \A n \in ShutdownNodes :
       end[n] => (calls > 0 /\ n \in closeCalled /\ Root \in closeCalled)
  /\ (calls = 0 /\ closeCalled = {}) =>
       \A n \in Nodes :
         /\ ~end[n]
         /\ ~dfin[n]
         /\ Len(Args(n)) > 0 => ~gfin[n]
  /\ calls = 0 => closeCalled = {}

\* C11 witness: after Shutdown on merge(a, b) the End of a has fired while a
\* is not Done.
C11_Witness ==
  /\ tree = "merge" /\ pre = {} /\ calls = 1 /\ end[1] /\ ~sdone[1]
  /\ 1 \in closeCalled

\* the nodes a node holds: its non-nil merge arguments and, for a dependency,
\* its parent
Held(a) ==
  {Args(a)[i] : i \in ArgIdx(a)} \cup (IF Kind(a) = "depend" THEN {Parent(a)} ELSE {})

\* the labels of the Annotation nodes on the path from a down to x, the
\* outermost first
RECURSIVE LabelsOnPath(_, _)
LabelsOnPath(a, x) ==
  IF a = x THEN <<>>
  ELSE (IF Kind(a) = "annotation" THEN <<Label(a)>> ELSE <<>>)
       \o LabelsOnPath(CHOOSE c \in Held(a) : x \in Under(c), x)

\* position of node x in the order in which cause() reads the done channels
CausePos(x) == CHOOSE j \in 1..Len(causeOrder(Root)) : causeOrder(Root)[j] = x

\* C12: when Shutdown returned an error, the error is ErrTimeout wrapped in
\* the labels of the Annotation nodes on the path from the root to the first
\* Shutdown node that cause() found not Done, outermost first, each once.
C12_TimeoutAnnotated ==
  (Returned /\ call.res # NilErr) =>
    /\ call.stalled \in ShutdownNodes
    /\ \A j \in 1..(CausePos(call.stalled) - 1) : sdone[causeOrder(Root)[j]]
    /\ call.res = LabelsOnPath(Root, call.stalled) \o ErrTimeout

\* C12 witness: Shutdown of WithAnnotation("outer", WithAnnotation("inner",
\* s1), s2) timed out with s1 not Done.
C12_Witness ==
  /\ tree = "annot2" /\ Returned /\ call.stalled = 1
  /\ call.res = <<"outer", "inner", "timeout expired">>

AnnotationNodes == {n \in Nodes : Kind(n) = "annotation"}

\* positions of the children of n whose Err() is not nil
ErrChildren(n, E) == {i \in 1..Len(States(n)) : Err(States(n)[i], E) # NilErr}

\* the error of the first child in merge order that has one, with "label: "
\* in front; nil when no child has an error
AnnotatedFirst(n, E) ==
  IF ErrChildren(n, E) = {} THEN NilErr
  ELSE LET i == CHOOSE j \in ErrChildren(n, E) : \A k \in ErrChildren(n, E) : j <= k
       IN <<Label(n)>> \o Err(States(n)[i], E)

\* a call of Err() on the root returns in this step, and no error of the
\* tree was assigned while it ran
ErrReturns == errRes.pc = "walk" /\ errRes'.pc = "ret" /\ errRes.stable

\* C13: Err() of an Annotation node is the first non-nil error of its
\* children in merge order with "label: " in front, and nil, without the
\* label, when no child has an error; its Shutdown returns nil, without the
\* label, when the shutdown is complete.
C13_AnnotationErr ==
  /\ [](\A n \in AnnotationNodes :
         /\ Err(n, errs) = AnnotatedFirst(n, errs)
         /\ shutdownErr(n, ShutdownNodes) = NilErr)
  /\ [][(ErrReturns /\ Kind(Root) = "annotation") =>
          errRes'.res = AnnotatedFirst(Root, errs)]_vars

\* C13 witness: Err() on WithAnnotation("ann", g1, g2) returned "ann: e1",
\* the error of g2, g1 holding no error.
C13_Witness ==
  /\ tree = "errann" /\ errRes.pc = "ret" /\ errRes.stable
  /\ errs[1] = NilErr /\ errs[2] = <<"e1">> /\ errRes.res = <<"ann", "e1">>

\* Err() as claimed: the error of the node itself first, then of its
\* children left to right, recursively; a Dependency asks its parent first
RECURSIVE ClaimedErr(_, _), claimedErrFrom(_, _, _)

claimedErrFrom(n, i, E) ==
  IF i > Len(States(n)) THEN NilErr
  ELSE LET err == ClaimedErr(States(n)[i], E)
       IN IF err # NilErr THEN err ELSE claimedErrFrom(n, i + 1, E)

ClaimedErr(n, E) ==
  CASE Kind(n) = "empty" -> NilErr
    [] Kind(n) \in {"error", "errgroup"} ->
         IF E[n] # NilErr THEN E[n] ELSE claimedErrFrom(n, 1, E)
    [] Kind(n) = "depend" ->
         LET err == ClaimedErr(Parent(n), E)
         IN IF err # NilErr THEN err ELSE claimedErrFrom(n, 1, E)
    [] Kind(n) = "annotation" ->
         LET err == claimedErrFrom(n, 1, E)
         IN IF err # NilErr THEN Annotate(Label(n), err) ELSE NilErr
    [] OTHER -> claimedErrFrom(n, 1, E)

\* C14: Err() on the root returns the first error in the order node, then
\* children left to right, recursively (Dependency: parent first), also
\* below Error and ErrorGroup nodes, and nil only if no node holds an error.
C14_ErrFirstInOrder ==
  [][ErrReturns =>
       /\ errRes'.res = ClaimedErr(Root, errs)
       /\ (errRes'.res = NilErr => ~AnyErr)]_vars

\* C15: a call of Err() on the root that starts when some node of the tree
\* holds an error does not return nil.
C15_NeverNilAgain ==
  (errRes.pc = "ret" /\ errRes.had) => errRes.res # NilErr

\* the calls of Error(e) on n, e not nil, that have returned
Assigned(n) == {c \in BagToSet(ecall) : c.n = n /\ c.e # NilErr /\ c.pc = "done"}

\* C16: the error of an ErrorGroup node is nil until an Error(e) with e not
\* nil took effect, it is the e of one of these calls, Error(nil) changes
\* nothing, and once it is not nil it is never assigned again.
C16_AssignedOnce ==
  /\ [](\A n \in ErrGroupNodes :
         /\ errs[n] # NilErr => \E c \in Assigned(n) : c.e = errs[n]
         /\ Assigned(n) # {} => errs[n] # NilErr
         /\ Err(n, errs) = errs[n])
  /\ [][\A n \in ErrGroupNodes : errs[n] # NilErr => errs'[n] = errs[n]]_vars

\* C16 witness: two calls of Error on the same node, with different errors,
\* have returned and the node holds e2.
C16_Witness ==
  /\ tree = "errwrap" /\ errs[1] = <<"e2">>
  /\ \E c, d \in Assigned(1) : c.e = <<"e1">> /\ d.e = <<"e2">>

\* the Value nodes with key k under n, top down and left to right: a Value
\* node before its children, the parent of a Dependency before its children
RECURSIVE MatchOrder(_, _), matchOrderFrom(_, _, _)

matchOrderFrom(n, i, k) ==
  IF i > Len(States(n)) THEN <<>>
  ELSE MatchOrder(States(n)[i], k) \o matchOrderFrom(n, i + 1, k)

MatchOrder(n, k) ==
  (IF Kind(n) = "value" /\ Key(n) = k THEN <<n>> ELSE <<>>)
  \o (IF Kind(n) = "depend" THEN MatchOrder(Parent(n), k) ELSE <<>>)
  \o matchOrderFrom(n, 1, k)

\* the same without the nodes under a Value node with key k
RECURSIVE VisibleOrder(_, _), visibleOrderFrom(_, _, _)

visibleOrderFrom(n, i, k) ==
  IF i > Len(States(n)) THEN <<>>
  ELSE VisibleOrder(States(n)[i], k) \o visibleOrderFrom(n, i + 1, k)

VisibleOrder(n, k) ==
  IF Kind(n) = "value" /\ Key(n) = k THEN <<n>>
  ELSE (IF Kind(n) = "depend" THEN VisibleOrder(Parent(n), k) ELSE <<>>)
       \o visibleOrderFrom(n, 1, k)

\* the value of the first node of the sequence that holds one
FirstValue(order) ==
  LET held == {i \in 1..Len(order) : StoredValue(order[i]) # NilValue}
  IN IF held = {} THEN NilValue
     ELSE StoredValue(order[CHOOSE i \in held : \A j \in held : i <= j])

\* C17 (as claimed): Value(k) on the root returns the value of the topmost,
\* then leftmost, Value node with key k, and nil when there is none.
C17_TopmostLeftmost ==
  valRes.called =>
    valRes.res = IF MatchOrder(Root, valRes.key) = <<>> THEN NilValue
                 ELSE StoredValue(MatchOrder(Root, valRes.key)[1])

\* C17 (amended): Value(k) on the root returns the value of the first Value
\* node with key k, in the same order, that holds a value other than nil and
\* is not under another Value node with key k; nil when there is none.
C17_FirstNonNil ==
  valRes.called => valRes.res = FirstValue(VisibleOrder(Root, valRes.key))

\* C17 witness: Value(k1) on Merge(WithValue(k1, nil), WithValue(k1, v1))
\* returned v1.
C17_Witness ==
  tree = "valnil" /\ valRes.called /\ valRes.key = "k1" /\ valRes.res = "v1"


\* a key that WithValue must refuse: nil, or of a type that is not comparable
BadKey(n) == Kind(n) = "value" /\ (Key(n) = NilKey \/ Key(n) = FuncKey)

\* C18: WithValue panics when the key is nil or not comparable, and then the
\* node does not exist: it tracks no child and no watcher of it was started;
\* with any other key the node is returned, and construction with good keys
\* only does not panic.
C18_BadKeyPanics ==
  /\ \A n \in ValueNodes :
       /\ BadKey(n) =>
            /\ panicked
            /\ n \notin Created
            /\ toClose[n] = {}
            /\ \A s \in Running : \A f \in 1..Len(s) : s[f].cur # n
       /\ (\A m \in 1..n : ~BadKey(m)) => n \in Created
  /\ ((\A n \in Nodes : ~BadKey(n)) /\ calls = 0) => ~panicked

\* C18 witness: WithValue(func() {}, v1, s) with s not finished has panicked,
\* and no watcher of s runs.
C18_Witness ==
  /\ tree = "funckey" /\ pre = {}
  /\ panicked /\ Root \notin Created
  /\ gor = EmptyBag


\* C19 (as claimed): Wait() on the root does not return while a counter of the
\* tree is nonzero, and a call that no Add follows returns once every counter
\* is zero.
C19_NoReturnWhileNonzero ==
  /\ [](wcall.pc = "ret" => wcall.zeroAtReturn)
  /\ []((wcall.pc \in {"walk", "blocked", "woken"} /\ ~wcall.addAfter)
          => <>(wcall.pc = "ret" \/ wcall.addAfter \/ ~AllZero))

\* C19 (amended): provided no Add is called after Wait() started, Wait() on
\* the root returns only when every counter of the tree is zero; and a call
\* of Wait() does not stay blocked forever while every counter is zero,
\* whatever the order in which the counters reached zero.
C19_WaitsForAll ==
  /\ []((wcall.pc = "ret" /\ ~wcall.addAfter) => wcall.zeroAtReturn)
  /\ [](wcall.pc \in {"walk", "blocked", "woken"}
          => <>(wcall.pc = "ret" \/ ~AllZero))

\* C19 witness: Wait() on st3.DependsOn(st1, st2) returned with no Add after
\* its start, after it had been blocked on a counter.
C19_Witness ==
  /\ tree = "waits"
  /\ wcall.pc = "ret" /\ ~wcall.addAfter /\ wcall.waited /\ wcall.zeroAtReturn
  /\ ~panicked

\* C20: Done() on a Wait node never leaves the counter negative and never
\* fails, even when it is called once more than Add counted.
C20_SpuriousDoneHarmless ==
  [][(\E n \in WaitNodes : wcount'[n] < wcount[n])
       => (~panicked' /\ \A n \in WaitNodes : wcount'[n] >= 0)]_vars


\* the Readiness nodes that the channel in field f of n stands for
ReadinessUnder(n, f) ==
  ReadinessNodes \cap
    (IF f = "o" THEN Under(n) ELSE UnderChildren(n))

\* C21: a ready signal has fired only if Ok was called on every Readiness
\* node it stands for: the signal returned by Ready() on the root for every
\* Readiness node of the tree, and likewise the signal of every node inside.
C21_ReadyOnlyIfAllOk ==
  /\ Ready(Root) = "closed" => \A r \in ReadinessNodes \cap Under(Root) : rok[r]
  /\ \A n \in Nodes : \A f \in {"g", "o"} :
       Chan(n, f) = "closed" => \A r \in ReadinessUnder(n, f) : rok[r]

\* C21 witness: the signal of r3.DependsOn(r1, r2) has fired, after three Ok.
C21_Witness ==
  /\ tree = "readydep" /\ rcall.n > 0
  /\ Ready(Root) = "closed"
  /\ \A r \in ReadinessNodes : rok[r]


\* C22: once Ready() was called on the root and Ok on every Readiness node of
\* the tree, in either order, the signal eventually fires; a tree without
\* Readiness nodes is ready by default.
C22_ReadyFires ==
  (rcall.n > 0 /\ \A r \in ReadinessNodes : rok[r]) ~> (Ready(Root) = "closed")

\* C22 witness: the signal of merge(r1, r2) has fired.
C22_Witness ==
  /\ tree = "readys" /\ rcall.n > 0
  /\ Ready(Root) = "closed"
  /\ rgor = EmptyBag


\* C23: Ready() builds its signal once per node: every channel field is made
\* at most once, with one goroutine to close it, all the callers of Ready()
\* on the root get the same channel, and no channel is closed twice (closing
\* a closed channel would be a panic).
C23_BuiltOnce ==
  /\ \A n \in Nodes : made[n].g <= 1 /\ made[n].o <= 1
  /\ \A b \in BagToSet(rgor) :
       /\ CopiesIn(b, rgor) = 1
       /\ \A c \in BagToSet(rgor) : (c.n = b.n /\ c.f = b.f) => c = b
       /\ Chan(b.n, b.f) = "open"
  /\ Cardinality(rcall.res) <= 1
  /\ panicked => Created # Nodes

\* C23 witness: Ready() was called twice on merge(r1, r2) while the goroutine
\* of the first call still runs; both calls returned the one channel.
C23_Witness ==
  /\ tree = "readys" /\ rcall.n = 2 /\ rcall.res = {1}
  /\ made[Root].g = 1
  /\ rgor # EmptyBag


\* C24: close() never fails, however often and from however many goroutines
\* it is called, and no signal is fired twice (closing a closed channel is a
\* panic): the process never dies after a tree was built.
C24_CloseNeverFails == panicked => Created # Nodes


\* C25 (as claimed): a second Shutdown, called on the root when it had
\* already finished, returns nil.
C25_SecondShutdownNil ==
  (calls = 2 /\ Returned /\ call.finAtCall) => call.res = NilErr

\* a goroutine is about to read g.states[i] out of range
IndexOutOfRange ==
  \E s \in Running :
    /\ Top(s).pc = "g_loop"
    /\ \E i \in Top(s).rem : i > Len(States(Top(s).n))

\* C25 (amended): a second Done or Ok leaves every signal as it was and does
\* not fail (the process only ever dies in group.close); a second Shutdown,
\* called on the root when it had already finished, returns nil unless its
\* context expired while a Shutdown node of the tree was not Done, and then
\* it returns the timeout.
C25_RepeatIsNoOp ==
  /\ []((calls = 2 /\ Returned /\ call.finAtCall /\ (~call.expired \/ call.doneAtCause))
         => call.res = NilErr)
  /\ []((calls = 2 /\ Returned /\ call.finAtCall /\ call.res # NilErr)
         => IsTimeout(call.res))
  /\ [][(\A n \in ShutdownNodes : sdone[n] => sdone'[n])
        /\ (\A n \in ReadinessNodes : rok[n] => rok'[n])
        /\ ((~panicked /\ panicked') => IndexOutOfRange)]_vars

\* C25 witness: the second Shutdown on withShutdown(withShutdown(st1)), all
\* Done, returned nil although its context had expired.
C25_Witness ==
  /\ tree = "wrap" /\ calls = 2 /\ Returned
  /\ call.finAtCall /\ call.expired /\ call.res = NilErr
  /\ \A n \in ShutdownNodes : sdone[n]



\* w is x with Empty() added: Merge of x and Empty() in any order,
\* x.DependsOn(Empty()) or Empty().DependsOn(x); Nil when w is no such node
Wrapped(w) ==
  LET others == {a \in UnderChildren(w) \cap {Args(w)[i] : i \in ArgIdx(w)} :
                   Kind(a) # "empty"}
      nilFree == \A i \in 1..Len(Args(w)) : Args(w)[i] # Nil
      someEmpty == \E i \in 1..Len(Args(w)) : Kind(Args(w)[i]) = "empty"
  IN CASE Kind(w) = "group" /\ nilFree /\ someEmpty /\ Cardinality(others) = 1
            -> CHOOSE x \in others : TRUE
       [] Kind(w) = "depend" /\ nilFree /\ someEmpty /\ others = {}
            /\ Kind(Parent(w)) # "empty" -> Parent(w)
       [] Kind(w) = "depend" /\ nilFree /\ Kind(Parent(w)) = "empty"
            /\ Cardinality(others) = 1 -> CHOOSE x \in others : TRUE
       [] OTHER -> Nil

\* Err, Value, Wait and the outcome of Shutdown are those of x
SameResults(w, x) ==
  /\ Err(w, errs) = Err(x, errs)
  /\ \A k \in Keys : Value(w, k) = Value(x, k)
  /\ waitOrder(w) = waitOrder(x)
  /\ \A D \in SUBSET ShutdownNodes : shutdownErr(w, D) = shutdownErr(x, D)
  /\ finishSig(w) => finishSig(x)

\* the close of x has been invoked, or a goroutine is on its way to invoke it
ClosePending(w, x) ==
  \/ x \in closeCalled
  \/ \E s \in Running : Top(s).pc = "w_wait" /\ Top(s).n = x
  \/ \E s \in Running : \E j \in 1..Len(s) : s[j].n = w /\ s[j].pc = "d_children"

\* every operation of Empty() is a no-op
EmptyNoOp ==
  \A e \in Nodes :
    Kind(e) = "empty" =>
      /\ Err(e, errs) = NilErr
      /\ \A k \in Keys : Value(e, k) = NilValue
      /\ waitOrder(e) = <<>>
      /\ finishSig(e)
      /\ \A D \in SUBSET ShutdownNodes : cause(e, D) = NilErr
      /\ closeCall(<<>>, e) = [stack |-> <<>>, started |-> <<>>]
      /\ e = Root => /\ call.pc \in {"idle", "ret"}
                     /\ call.res = NilErr
                     /\ gor = EmptyBag

\* C26 (as claimed): Empty() is a no-op in every operation, and x with
\* Empty() added gives the results of x alone and, once Shutdown is called on
\* it, closes x as Shutdown on x alone does.
C26_EmptyIsIdentity ==
  /\ EmptyNoOp
  /\ \A w \in Nodes :
       Wrapped(w) # Nil =>
         /\ SameResults(w, Wrapped(w))
         /\ (w = Root /\ calls > 0) => ClosePending(w, Wrapped(w))

\* C26 (amended): the same, except that Merge(x, Empty()) and
\* Empty().DependsOn(x) never close a Shutdown node x that was Done when
\* they were built, whereas Shutdown on x alone closes it and fires its End.
C26_EmptyIsIdentityUnlessFinished ==
  /\ EmptyNoOp
  /\ \A w \in Nodes :
       LET x == Wrapped(w) IN
       x # Nil =>
         /\ SameResults(w, x)
         /\ (w = Root /\ calls > 0) =>
              IF x \in pre /\ Parent(w) # x
              THEN x \notin closeCalled /\ (Kind(x) = "shutdown" => ~end[x])
              ELSE ClosePending(w, x)

\* C26 witness: Shutdown on Merge(Empty(), s) returned nil with End and Done
\* of s fired.
C26_Witness ==
  /\ tree = "emptymerge" /\ pre = {}
  /\ Returned /\ call.res = NilErr
  /\ end[2] /\ sdone[2] /\ finishSig(Root)

\* the nodes that embed a group
GroupNodes == {n \in Created : Kind(n) \notin {"empty", "depend"}}

C28_TimeoutOnlyFromShutdown ==
  /\ [][/\ errs' = errs
        /\ \A n \in ValueNodes : StoredValue(n)' = StoredValue(n)]_vars
  /\ [](\A n \in Created :
          /\ Err(n, errs) = Err(n, [m \in Nodes |-> FixedErr(m)])
          /\ ~IsTimeout(Err(n, errs)))

\* C28 witness: Shutdown on WithValue(k1, v1, WithError(e2, s)) returned the
\* timeout; Err() is e2 and Value(k1) is v1 as before the call.
C28_Witness ==
  /\ tree = "valshut" /\ Returned /\ IsTimeout(call.res)
  /\ Err(Root, errs) = <<"e2">>
  /\ Value(Root, "k1") = "v1"

\* the close of child c was invoked, and its End fired if c is a Shutdown
\* node whose own group has finished
ChildClosed(c) ==
  /\ c \in closeCalled
  /\ (Kind(c) = "shutdown" /\ gfin[c]) => end[c]

\* C29: once a Group has fired started-closing, the close of every child it
\* tracks is eventually invoked, and the End of a tracked Shutdown child
\* fires as soon as the child's own group has finished, whether or not the
\* siblings ever finish.
C29_ChildrenCloseIndependently ==
  []<>(\A g \in GroupNodes :
         gdone[g] => \A i \in toClose[g] : ChildClosed(Args(g)[i]))

\* child c was given to a merge when its finishSig had fired: a Shutdown
\* node already Done, or Empty()
MergedFinished(c) == c \in pre \/ Kind(c) = "empty"

\* C30: a child whose finishSig had fired when it was merged is not tracked
\* by the Group, has no watcher, never has its close invoked by the close of
\* the Group, and the End of such a Shutdown node never fires.
C30_FinishedChildLeftAlone ==
  \A g \in Created : \A i \in ArgIdx(g) :
    MergedFinished(Args(g)[i]) =>
      /\ i \notin toClose[g]
      /\ \A s \in Running : Top(s).n # Args(g)[i] /\ s[1].n # Args(g)[i]
      /\ Args(g)[i] \notin closeCalled
      /\ ~end[Args(g)[i]]

\* C30 witness: merge(a, b) with a Done before the merge: the Group was
\* closed and has finished, End of b fired and End of a did not.
C30_Witness ==
  /\ tree = "merge" /\ pre = {1}
  /\ gdone[3] /\ gfin[3] /\ end[2] /\ sdone[2] /\ ~end[1]
  /\ Returned /\ call.res = NilErr

\* C31: the group of a node merged of no argument has started-closing and
\* finished fired from its construction on; the group of a node merged of
\* at least one argument has fired finished only if its close was invoked,
\* also when every child had finished before the merge.
C31_EmptyMergePreFired ==
  \A n \in GroupNodes :
    IF Len(Args(n)) = 0
    THEN gdone[n] /\ gfin[n]
    ELSE /\ gfin[n] => (gdone[n] /\ CloseStarted(n))
         /\ calls = 0 => ~gdone[n] /\ ~gfin[n]

\* C31 witness: merge(a, b) of two childless Shutdown nodes, both Done before
\* the merge: the Group finished once Shutdown had invoked its close, and it
\* closed neither child.
C31_Witness ==
  /\ tree = "merge" /\ pre = {1, 2} /\ calls = 1
  /\ gfin[1] /\ gfin[2] /\ ~end[1] /\ ~end[2]
  /\ gdone[3] /\ gfin[3] /\ 3 \in closeCalled

\* the children of g that had not finished when g was merged of them
TrackedChildren(g) ==
  {c \in {Args(g)[i] : i \in ArgIdx(g)} :
     ~(\/ c \in pre
       \/ Kind(c) = "empty"
       \/ Kind(c) \notin {"shutdown", "depend", "empty"} /\ Len(Args(c)) = 0)}

\* C32: whatever the owners call and when, finished of a Group has fired
\* only if every tracked child has finished, finished of a Dependency node
\* only if its children and its parent have finished, and Done of a Shutdown
\* node only if its merged children have finished and its End has fired.
C32_FinishAfterRequired ==
  /\ \A g \in GroupNodes :
       gfin[g] => \A c \in TrackedChildren(g) : finishSig(c)
  /\ \A d \in DependNodes \cap Created :
       dfin[d] => /\ \A c \in TrackedChildren(d) : finishSig(c)
                  /\ finishSig(Parent(d))
  /\ \A s \in ShutdownNodes \cap Created :
       sdone[s] => (gfin[s] /\ end[s])

\* C33: Shutdown on WithAnnotation("p", sp).DependsOn(WithAnnotation("c", sc))
\* that returned an error returned the timeout under the annotation of the
\* child when cause() found the child not Done (whatever the parent), and
\* under the annotation of the parent only when it found the child Done and
\* the parent not.
C33_CauseChildrenFirst ==
  (tree = "anndep" /\ Returned /\ call.res # NilErr) =>
    /\ call.stalled \in {1, 3}
    /\ ~sdone[3] => call.res = Annotate("c", ErrTimeout)
    /\ call.stalled = 3 => call.res = Annotate("c", ErrTimeout)
    /\ call.stalled = 1 => (call.res = Annotate("p", ErrTimeout) /\ sdone[3])

\* C33 witness: the child was Done and the parent was not: the timeout came
\* back under the annotation of the parent.
C33_Witness ==
  /\ tree = "anndep" /\ Returned
  /\ sdone[3] /\ ~sdone[1]
  /\ call.res = Annotate("p", ErrTimeout)

\* the goroutine with stack s returns from the close() it is running
CloseReturns(s) ==
  /\ Top(s).pc \in {"g_enter", "g_loop", "g_wait", "s_wait", "d_parent"}
  /\ gor' = Put(Take(gor, s), Pop(s))

\* the finishSig of the receiver of the close() that frame f runs: finished
\* of the group, done of the Shutdown node, finished of the Dependency node
ReceiverFinished(f) ==
  CASE f.pc = "s_wait" -> sdone[f.n]
    [] f.pc = "d_parent" -> dfin[f.n]
    [] OTHER -> gfin[f.n]

\* C34: whenever a call of close() returns, the first on a node or a later
\* one, the finishSig of the node has fired.
C34_CloseBlocksUntilFinished ==
  [][\A s \in Running : CloseReturns(s) => ReceiverFinished(Top(s))']_vars

\* the composites that reference node n: as a merged child, or as the parent
\* of a Dependency node
Referrers(n) ==
  {g \in Nodes : (\E i \in ArgIdx(g) : Args(g)[i] = n)
                 \/ (Kind(g) = "depend" /\ Parent(g) = n)}

\* C35: when a node is referenced by two composites and both are closed, no
\* close fails, no signal is closed a second time, none is taken back, and a
\* composite that the node had not finished for when it was built has
\* finished only if the node has.
C35_SharedNodeClosedOnce ==
  /\ [](~panicked)
  /\ [][\A n \in Nodes : /\ (end[n] => end'[n])
                          /\ (gdone[n] => gdone'[n])
                          /\ (gfin[n] => gfin'[n])]_vars
  /\ [](\A n \in Nodes : \A g \in Referrers(n) :
          (Cardinality(Referrers(n)) > 1 /\ finishSig(g)) =>
             (finishSig(n) \/ n \notin TrackedChildren(g) \cup {Parent(g)}))

\* C35 witness: in Merge(Merge(s), Merge(s)) the close of s was invoked by
\* both groups, its End fired, and both groups and the root have finished.
C35_Witness ==
  /\ tree = "shared2" /\ pre = {}
  /\ end[1] /\ sdone[1] /\ gfin[2] /\ gfin[3] /\ gfin[4]
  /\ gor = EmptyBag /\ ~panicked

\* C36: a call of x.DependsOn(children...) leaves every node built before as
\* it was, x and the children included, and builds one new node: a
\* Dependency node whose parent is x and whose children are the non-nil
\* arguments in the order given.
C36_DependsOnBuildsNewNode ==
  [][built'.x # 0 =>
       LET new == built'.nodes[Len(built'.nodes)] IN
       /\ Len(built'.nodes) = Len(built.nodes) + 1
       /\ SubSeq(built'.nodes, 1, Len(built.nodes)) = built.nodes
       /\ new.kind = "depend"
       /\ new.parent = built'.x
       /\ SelectSeq(new.args, NotNil) = SelectSeq(built'.children, NotNil)]_vars

\* C36 witness: DependsOn was called on a Dependency node, with a nil among
\* the children.
C36_Witness ==
  /\ built.x # 0
  /\ built.nodes[built.x].kind = "depend"
  /\ Len(built.children) = 2 /\ built.children[1] = Nil /\ built.children[2] # Nil

\* C37: with owners that call Done only after End, a node whose finishSig
\* has fired has a nil cause(), and a Shutdown called on the root after it
\* had finished returns nil, expired context or not.
C37_FinishedMeansNoCause ==
  /\ \A n \in Created :
       finishSig(n) => cause(n, {m \in ShutdownNodes : sdone[m]}) = NilErr
  /\ (Returned /\ call.finAtCall) => call.res = NilErr

\* C38: cause() never waits and changes nothing: while it runs its next step
\* can be taken, a Shutdown whose context has expired can take the expired
\* branch of its select, and a step of cause() changes nothing but the
\* position and the result of the call.
C38_CauseNeverBlocks ==
  /\ [](call.pc = "cause" => ENABLED CauseStep)
  /\ []((call.pc = "select" /\ call.expired) => ENABLED SelectExpired)
  /\ [][call.pc = "cause" =>
          \/ call' = call
          \/ UNCHANGED <<dataVars, tree, pre, gdone, gfin, toClose, end, sdone, dfin, gor,
                         calls, panicked, closeCalled>>]_vars

\* C39: a Value node with the key asked for returns its own value, nil
\* included, whatever its children hold; a Group or Dependency lookup is nil
\* only if the lookup of every child (and of the parent) is nil; and when the
\* first Value node with the key, in top-down, left-to-right order and not
\* under another Value node with the key, holds a value, Value(k) on the
\* root returns it.
C39_OwnValueEvenNil ==
  valRes.called =>
    LET k == valRes.key
        order == VisibleOrder(Root, k) IN
    /\ \A n \in ValueNodes \cap Created :
         Key(n) = k => Value(n, k) = StoredValue(n)
    /\ \A n \in Created :
         (Kind(n) # "empty" /\ ~(Kind(n) = "value" /\ Key(n) = k)) =>
           (Value(n, k) = NilValue <=>
              /\ \A i \in 1..Len(States(n)) : Value(States(n)[i], k) = NilValue
              /\ Kind(n) = "depend" => Value(Parent(n), k) = NilValue)
    /\ (order # <<>> /\ StoredValue(order[1]) # NilValue) =>
         (valRes.res = StoredValue(order[1]) /\ valRes.res # NilValue)

\* C39 witness: Value(k1) on WithValue(k1, nil, WithValue(k1, v1)) returned
\* nil, the value of the root, although its child holds v1.
C39_Witness ==
  /\ tree = "valhide" /\ valRes.called /\ valRes.key = "k1"
  /\ valRes.res = NilValue
  /\ Value(1, "k1") = "v1"

====
